---- MODULE Spec2Model ----
(***************************************************************************)
(* Model of pixijs-sdf-particles.  After the compute-pass engine come the  *)
(* shader assembly of a variable, the distance field generation, the       *)
(* particle simulation pass and the float format probe, each with a        *)
(* specification of its own that leaves the other parts idle.              *)
(*                                                                         *)
(* The GPU compute-pass engine: src/src/utils/GPUComputeVariable.ts.  A   *)
(* GPUComputeVariable owns one or two render textures (ping / pong), a     *)
(* list of dependencies, the derived                                       *)
(* set of dependents and its lifecycle flags.  Every public method is one  *)
(* action; the method bodies are the lower-case operators, which transform *)
(* a record holding all the objects' fields, so that methods calling other *)
(* methods (compute -> init, computeOnce, computeChain, the destroy        *)
(* cascade) compose as they do in the source.  A JavaScript exception is   *)
(* the field "threw": the statements after the throwing one do not run and *)
(* the assignments made before it stay.  "passes" lists the render passes  *)
(* a call has made, in order, "work" the commands it has issued to the     *)
(* GPU (texture creation, upload, copy, render) and "error" what the       *)
(* thrown Error says.  The constructor options (name, fragment shader      *)
(* body, static samplers, uniforms) are read-only fields.                  *)
(***************************************************************************)
EXTENDS Integers, Sequences, FiniteSets, TLC

VARIABLES
    pingTexture,          \* v -> texture handle, NoTex while unset
    pongTexture,          \* v -> texture handle, NoTex while unset
    currentIndex,         \* v -> 0 (ping is current) or 1 (pong is current)
    dependencies,         \* v -> sequence of variables
    dependents,           \* v -> set of variables
    shader,               \* v -> TRUE when shader and mesh are non-null
    initialized,          \* v -> BOOLEAN
    destroyed,            \* v -> BOOLEAN
    texturesDestroyed,    \* v -> BOOLEAN
    needsPingPong,        \* v -> BOOLEAN
    externalPingTexture,  \* v -> BOOLEAN
    released,             \* textures on which destroy() has been called
    initDone,             \* variables on which init() has completed (history)
    name,                 \* v -> the sampler name of the variable
    fragmentShader,       \* v -> names the pass body declares as uniforms
    samplers,             \* v -> keys of the static sampler table, in order
    uniforms,             \* v -> <<key, type>> of the uniform table, in order
    \* generateSDFTex / generateSignedSDFTex (src/unnamed/part_001)
    seedTexture,          \* options.texture: width, height, pixels with r >= 0.5
    fillMaskTexture,      \* pixels of the fill mask with r > 0.5
    jfa,                  \* current texture of jfaComputeVar: pixel -> <<x, y, b>>
    jfaLoop,              \* the loop variable i of the propagation passes
    sdfStage,             \* how far the generation has come
    unsignedSDF,          \* output of the finalization pass: pixel -> texel
    signedSDF,            \* output of the sign pass: pixel -> texel
    \* the particle state texture and its attributes (src/unnamed/part_002,
    \* part_003)
    position,             \* particle -> movement.xy
    velocity,             \* particle -> movement.zw
    initEnd,              \* particle -> attributes.g
    spawn,                \* particle -> the position initMovementShader gave it
    activated,            \* particles some pass has found initEnd <= uPhase for
    \* the float format probe (src/src/utils/floatTextureFormat.ts)
    extension,            \* gl.getExtension('EXT_color_buffer_float') is not null
    colorBufferFloatSupported,  \* the cache: "null", "true" or "false"
    getExtensionCalls,    \* how often gl.getExtension has been called
    computeTextures,      \* compute texture -> its format, "none" before
    \* the run of generateSDFTex on its two variables (src/unnamed/part_001)
    generatePc,           \* the statement generateSDFTex executes next
    uFirst,               \* jfaComputeVar.uniforms.uFirst.value
    uStepSize,            \* jfaComputeVar.uniforms.uStepSize.value
    rendered,             \* the passes rendered so far, with their uniforms
    \* the mouse position (src/unnamed/part_005, part_006, cursorAnimation.ts)
    mousePos,             \* values.mousePos
    syncMousePos,         \* values.syncMousePos
    uMousePos,            \* mouseBounceRunner.uniforms.uMousePos.value
    lastPointer,          \* what the last pointermove / touchend handler wrote
    pointerAfterStop,     \* a handler has run since syncMousePos became false
    passMousePos,         \* uMousePos as the last pass of the ticker read it
    \* the debounced function (src/src/utils/debounce.ts)
    delay,                \* the delay debounce was given
    timeoutId,            \* the closure's timeoutId, 0 for null
    timers,               \* pending timers: id -> [due, args]
    nextTimer,            \* the id the next setTimeout returns
    now,                  \* the clock
    callLog,              \* the calls of the debounced function, in order
    funcRuns              \* the runs of func, in order

vars == <<pingTexture, pongTexture, currentIndex, dependencies, dependents,
          shader, initialized, destroyed, texturesDestroyed, needsPingPong,
          externalPingTexture, released, initDone,
          name, fragmentShader, samplers, uniforms,
          seedTexture, fillMaskTexture, jfa, jfaLoop, sdfStage, unsignedSDF,
          signedSDF, position, velocity, initEnd, spawn, activated,
          extension, colorBufferFloatSupported, getExtensionCalls,
          computeTextures,
          generatePc, uFirst, uStepSize, rendered,
          mousePos, syncMousePos, uMousePos, lastPointer, pointerAfterStop,
          passMousePos,
          delay, timeoutId, timers, nextTimer, now, callLog, funcRuns>>

particleVars == <<position, velocity, initEnd, spawn, activated>>

formatVars == <<extension, colorBufferFloatSupported, getExtensionCalls,
                computeTextures>>

engineVars == <<pingTexture, pongTexture, currentIndex, dependencies,
                dependents, shader, initialized, destroyed, texturesDestroyed,
                needsPingPong, externalPingTexture, released, initDone,
                name, fragmentShader, samplers, uniforms>>

sdfVars == <<seedTexture, fillMaskTexture, jfa, jfaLoop, sdfStage, unsignedSDF,
             signedSDF>>

generateVars == <<generatePc, uFirst, uStepSize, rendered>>

pointerVars == <<mousePos, syncMousePos, uMousePos, lastPointer,
                 pointerAfterStop, passMousePos>>

debounceVars == <<delay, timeoutId, timers, nextTimer, now, callLog, funcRuns>>

(***************************************************************************)
(* Bounds.                                                                 *)
(***************************************************************************)
\* variables constructed in the lifecycle specification
NumVars == 2
\* of these, the first NumExtVars are handed caller-owned textures
NumExtVars == 1
\* caller-owned render textures of the variables' size
NumExt == 2
\* longest dependency list handed to setDependencies
MaxDeps == 2
\* variables constructed in the chain specification
NumChainVars == 3
\* side of the (square) variables, in texels
Side == 1

Vars == DOMAIN initialized

NoTex == <<"none", 0>>
PingOf(v) == <<"ping", v>>
PongOf(v) == <<"pong", v>>
ExtTex(e) == <<"ext", e>>
\* a caller-owned texture whose width differs from the variables'
BadExt == <<"wide", 0>>
ExtTextures == {ExtTex(e) : e \in 1..NumExt}

ExpectedLength == Side * Side * 4

\* the dependency lists: sequences of distinct variables, MaxDeps at most
DepLists(V) ==
    {q \in UNION {[1..n -> V] : n \in 0..MaxDeps} :
        \A i, j \in 1..Len(q) : i # j => q[i] # q[j]}

Range(q) == {q[i] : i \in 1..Len(q)}

(***************************************************************************)
(* The objects' fields as one record, and back.                            *)
(***************************************************************************)
Heap ==
    [pingTexture |-> pingTexture, pongTexture |-> pongTexture,
     currentIndex |-> currentIndex, dependencies |-> dependencies,
     dependents |-> dependents, shader |-> shader,
     initialized |-> initialized, destroyed |-> destroyed,
     texturesDestroyed |-> texturesDestroyed,
     needsPingPong |-> needsPingPong,
     externalPingTexture |-> externalPingTexture,
     released |-> released, initDone |-> initDone,
     passes |-> <<>>, work |-> <<>>, threw |-> FALSE, error |-> <<>>]

Throw(s) == [s EXCEPT !.threw = TRUE]

\* throw new Error(message)
ThrowError(s, message) == [s EXCEPT !.threw = TRUE, !.error = message]

\* the fields of the record become the objects' fields
InstallHeap(s) ==
    /\ pingTexture' = s.pingTexture
    /\ pongTexture' = s.pongTexture
    /\ currentIndex' = s.currentIndex
    /\ dependencies' = s.dependencies
    /\ dependents' = s.dependents
    /\ shader' = s.shader
    /\ initialized' = s.initialized
    /\ destroyed' = s.destroyed
    /\ texturesDestroyed' = s.texturesDestroyed
    /\ needsPingPong' = s.needsPingPong
    /\ externalPingTexture' = s.externalPingTexture
    /\ released' = s.released
    /\ initDone' = s.initDone
    /\ UNCHANGED <<name, fragmentShader, samplers, uniforms>>

Install(s) ==
    /\ InstallHeap(s)
    /\ UNCHANGED <<sdfVars, particleVars, formatVars>>
    /\ UNCHANGED <<generateVars, pointerVars, debounceVars>>

(***************************************************************************)
(* The methods of GPUComputeVariable.                                      *)
(***************************************************************************)
getCurrentTexture(s, v) ==
    IF s.currentIndex[v] = 0 THEN s.pingTexture[v] ELSE s.pongTexture[v]

getAlternateTexture(s, v) ==
    IF s.currentIndex[v] = 0 THEN s.pongTexture[v] ELSE s.pingTexture[v]

ensureTextures(s, v) ==
    LET s1 == IF s.pingTexture[v] = NoTex
              THEN [s EXCEPT !.pingTexture[v] = PingOf(v),
                             !.work = Append(@, <<"create", PingOf(v)>>)]
              ELSE s
    IN  IF s1.pongTexture[v] = NoTex
        THEN IF s1.needsPingPong[v]
             THEN [s1 EXCEPT !.pongTexture[v] = PongOf(v),
                             !.work = Append(@, <<"create", PongOf(v)>>)]
             ELSE [s1 EXCEPT !.pongTexture[v] = s1.pingTexture[v]]
        ELSE s1

\* copyTexture(source, target)
copyTexture(s, source, target) ==
    [s EXCEPT !.work = Append(@, <<"copy", source, target>>)]

\* the caller's source texture of fillTextureFrom
SourceTex == <<"source", 0>>

\* fillTexture checking the data length after it has filled the textures
fillTextureCheckingLate(s, v, length) ==
    IF s.initialized[v] THEN Throw(s)
    ELSE LET s1 == ensureTextures(s, v)
             s2 == [s1 EXCEPT !.work = Append(@, <<"upload", s1.pingTexture[v]>>)]
         IN  IF length # ExpectedLength THEN Throw(s2) ELSE s2

fillTexture(s, v, length) ==
    IF length # ExpectedLength THEN Throw(s)
    ELSE IF s.initialized[v] THEN Throw(s)
    ELSE LET s1 == ensureTextures(s, v)
             s2 == [s1 EXCEPT !.work = Append(@, <<"upload", s1.pingTexture[v]>>)]
         IN  IF s2.needsPingPong[v]
             THEN copyTexture(s2, s2.pingTexture[v], s2.pongTexture[v])
             ELSE s2

fillTextureFrom(s, v) ==
    IF s.initialized[v] THEN Throw(s)
    ELSE LET s1 == ensureTextures(s, v)
             s2 == copyTexture(s1, SourceTex, s1.pingTexture[v])
         IN  IF s2.needsPingPong[v]
             THEN copyTexture(s2, s2.pingTexture[v], s2.pongTexture[v])
             ELSE s2

setInitialTexture(s, v, texture) ==
    IF s.initialized[v] THEN Throw(s)
    ELSE IF texture = BadExt THEN Throw(s)
    ELSE [s EXCEPT !.pingTexture[v] = texture,
                   !.externalPingTexture[v] = TRUE]

setDependencies(s, v, deps) ==
    LET removed == [d \in DOMAIN s.dependents |->
                       IF d \in Range(s.dependencies[v])
                       THEN s.dependents[d] \ {v} ELSE s.dependents[d]]
        added == [d \in DOMAIN s.dependents |->
                       IF d \in Range(deps)
                       THEN removed[d] \cup {v} ELSE removed[d]]
    IN  [s EXCEPT !.dependencies[v] = deps, !.dependents = added]

PIXI_TO_GLSL_TYPE ==
    "f32" :> "float" @@ "i32" :> "int" @@
    "vec2<f32>" :> "vec2" @@ "vec3<f32>" :> "vec3" @@ "vec4<f32>" :> "vec4" @@
    "vec2<i32>" :> "ivec2" @@ "vec3<i32>" :> "ivec3" @@ "vec4<i32>" :> "ivec4" @@
    "mat2x2<f32>" :> "mat2" @@ "mat3x3<f32>" :> "mat3" @@
    "mat4x4<f32>" :> "mat4" @@ "mat3x2<f32>" :> "mat3x2" @@
    "mat4x2<f32>" :> "mat4x2" @@ "mat2x3<f32>" :> "mat2x3" @@
    "mat4x3<f32>" :> "mat4x3" @@ "mat2x4<f32>" :> "mat2x4" @@
    "mat3x4<f32>" :> "mat3x4"

\* the pass body is kept as the set of names it declares as uniforms
isUniformDeclared(shaderSource, uniformName) == uniformName \in shaderSource

\* a declaration "uniform <type> <name>;" is the pair <<type, name>>
samplerDeclarations(s, v) ==
    LET deps == s.dependencies[v]
        forDeps == [i \in 1..Len(deps) |-> <<"sampler2D", name[deps[i]]>>]
        forSamplers == [i \in 1..Len(samplers[v]) |-> <<"sampler2D", samplers[v][i]>>]
        Missing(d) == ~isUniformDeclared(fragmentShader[v], d[2])
    IN  SelectSeq(forDeps, Missing) \o SelectSeq(forSamplers, Missing)

\* the uniforms the loop of createShader does not pass over
undeclaredUniforms(v) ==
    LET Missing(u) == ~isUniformDeclared(fragmentShader[v], u[1])
    IN  SelectSeq(uniforms[v], Missing)

\* positions in undeclaredUniforms(v) whose type PIXI_TO_GLSL_TYPE lacks
unknownUniforms(v) ==
    {i \in 1..Len(undeclaredUniforms(v)) :
        undeclaredUniforms(v)[i][2] \notin DOMAIN PIXI_TO_GLSL_TYPE}

uniformDeclarations(v) ==
    [i \in 1..Len(undeclaredUniforms(v)) |->
        <<PIXI_TO_GLSL_TYPE[undeclaredUniforms(v)[i][2]],
          undeclaredUniforms(v)[i][1]>>]

\* what createShader puts in front of the pass body
codeToInject(s, v) ==
    <<(<<"#define", "resolution">>)>> \o samplerDeclarations(s, v)
        \o uniformDeclarations(v)

\* the loop over this.uniforms throws at the first undeclared uniform of an
\* unknown type; resources[dep.name] = dep.getCurrentTexture().source is a
\* TypeError when the dependency has no texture yet
createShader(s, v) ==
    IF unknownUniforms(v) # {}
    THEN LET i == CHOOSE k \in unknownUniforms(v) :
                      \A j \in unknownUniforms(v) : k <= j
             u == undeclaredUniforms(v)[i]
         IN  ThrowError(s, <<"Unknown uniform type", name[v], u[2], u[1]>>)
    ELSE IF \E i \in 1..Len(s.dependencies[v]) :
           getCurrentTexture(s, s.dependencies[v][i]) = NoTex
    THEN Throw(s)
    ELSE [s EXCEPT !.shader[v] = TRUE]

init(s, v) ==
    IF s.initialized[v] THEN Throw(s)
    ELSE LET s1 == [s EXCEPT !.needsPingPong[v] =
                        v \in Range(s.dependencies[v])]
             s2 == ensureTextures(s1, v)
             s3 == createShader(s2, v)
         IN  IF s3.threw THEN s3
             ELSE [s3 EXCEPT !.initialized[v] = TRUE,
                             !.initDone = @ \cup {v}]

\* one render pass: who ran it, its render target, the dependencies whose
\* names are its samplers, the texture bound to each of them, and whether
\* this call of compute() ran init() first
Pass(s, v, inited) ==
    [v |-> v,
     target |-> getAlternateTexture(s, v),
     samplers |-> s.dependencies[v],
     reads |-> [i \in 1..Len(s.dependencies[v]) |->
                   getCurrentTexture(s, s.dependencies[v][i])],
     inited |-> inited]

compute(s, v) ==
    LET s1 == IF ~s.initialized[v] THEN init(s, v) ELSE s
    IN  IF s1.threw THEN s1
        ELSE IF \E i \in 1..Len(s1.dependencies[v]) :
                    getCurrentTexture(s1, s1.dependencies[v][i]) = NoTex
        THEN Throw(s1)
        ELSE [s1 EXCEPT
                 !.passes = Append(@, Pass(s1, v, ~s.initialized[v])),
                 !.work = Append(@, <<"render", getAlternateTexture(s1, v)>>),
                 !.currentIndex[v] = 1 - @]

\* destroyTextures releasing the current texture and keeping the alternate
destroyTexturesCurrent(s, v) ==
    IF s.texturesDestroyed[v] THEN s
    ELSE IF s.needsPingPong[v]
         THEN IF getCurrentTexture(s, v) = NoTex THEN Throw(s)
              ELSE [s EXCEPT !.released = @ \cup {getCurrentTexture(s, v)},
                             !.texturesDestroyed[v] = TRUE]
         ELSE [s EXCEPT !.texturesDestroyed[v] = TRUE]

destroyTextures(s, v) ==
    IF s.texturesDestroyed[v] THEN s
    ELSE IF s.needsPingPong[v]
         THEN LET alternateTexture == getAlternateTexture(s, v)
                  isExternalTexture ==
                      /\ alternateTexture = s.pingTexture[v]
                      /\ s.externalPingTexture[v]
              IN  IF isExternalTexture
                  THEN [s EXCEPT !.texturesDestroyed[v] = TRUE]
                  ELSE IF alternateTexture = NoTex
                  THEN Throw(s)
                  ELSE [s EXCEPT
                           !.released = @ \cup {alternateTexture},
                           !.texturesDestroyed[v] = TRUE]
         ELSE [s EXCEPT !.texturesDestroyed[v] = TRUE]

\* the loop of destroy() with the cascade into destroyed dependencies left out
RECURSIVE destroyLoopNoCascade(_, _, _)
destroyLoopNoCascade(s, v, i) ==
    IF i > Len(s.dependencies[v]) THEN s
    ELSE destroyLoopNoCascade(
             [s EXCEPT !.dependents[s.dependencies[v][i]] = @ \ {v}], v, i + 1)

\* the loop of destroy() over this.dependencies, from position i on
RECURSIVE destroyLoop(_, _, _)
destroyLoop(s, v, i) ==
    IF s.threw \/ i > Len(s.dependencies[v]) THEN s
    ELSE LET dep == s.dependencies[v][i]
             s1 == [s EXCEPT !.dependents[dep] = @ \ {v}]
             s2 == IF /\ s1.destroyed[dep]
                      /\ ~s1.texturesDestroyed[dep]
                      /\ s1.dependents[dep] = {}
                   THEN destroyTextures(s1, dep)
                   ELSE s1
         IN  destroyLoop(s2, v, i + 1)

\* destroy() releasing its own textures without looking at its dependents
destroyIgnoringDependents(s, v) ==
    IF s.destroyed[v] THEN s
    ELSE LET s1 == [s EXCEPT !.destroyed[v] = TRUE, !.shader[v] = FALSE]
             s2 == destroyLoop(s1, v, 1)
             s3 == IF s2.threw THEN s2 ELSE destroyTextures(s2, v)
         IN  IF s3.threw THEN s3
             ELSE [s3 EXCEPT !.dependencies[v] = <<>>,
                             !.initialized[v] = FALSE]

\* destroy() without its early return on an already destroyed variable
destroyRepeating(s, v) ==
    LET s1 == [s EXCEPT !.destroyed[v] = TRUE, !.shader[v] = FALSE]
        s2 == destroyLoop(s1, v, 1)
        s3 == IF s2.threw THEN s2
              ELSE IF s2.dependents[v] = {}
              THEN destroyTextures(s2, v)
              ELSE s2
    IN  IF s3.threw THEN s3
        ELSE [s3 EXCEPT !.dependencies[v] = <<>>,
                        !.initialized[v] = FALSE]

destroy(s, v) ==
    IF s.destroyed[v] THEN s
    ELSE LET s1 == [s EXCEPT !.destroyed[v] = TRUE, !.shader[v] = FALSE]
             s2 == destroyLoop(s1, v, 1)
             s3 == IF s2.threw THEN s2
                   ELSE IF s2.dependents[v] = {}
                   THEN destroyTextures(s2, v)
                   ELSE s2
         IN  IF s3.threw THEN s3
             ELSE [s3 EXCEPT !.dependencies[v] = <<>>,
                             !.initialized[v] = FALSE]

computeOnce(s, v) ==
    LET s1 == init(s, v)
        s2 == IF s1.threw THEN s1 ELSE compute(s1, v)
    IN  IF s2.threw THEN s2 ELSE destroy(s2, v)

\* computeChain(visited) returns the heap and the visited set it has grown
RECURSIVE computeChain(_, _, _)
RECURSIVE chainLoop(_, _, _, _)

\* the loop of computeChain() passing over every dependency as it passes
\* over the self-edge
chainLoopSkipping(s, v, i, visited) == [heap |-> s, visited |-> visited]

chainLoop(s, v, i, visited) ==
    IF s.threw \/ i > Len(s.dependencies[v])
    THEN [heap |-> s, visited |-> visited]
    ELSE LET dep == s.dependencies[v][i]
             r == IF dep = v
                  THEN [heap |-> s, visited |-> visited]
                  ELSE computeChain(s, dep, visited)
         IN  chainLoop(r.heap, v, i + 1, r.visited)

computeChain(s, v, visited) ==
    IF v \in visited THEN [heap |-> s, visited |-> visited]
    ELSE LET r == chainLoop(s, v, 1, visited \cup {v})
         IN  IF r.heap.threw THEN r
             ELSE [heap |-> compute(r.heap, v), visited |-> r.visited]

(***************************************************************************)
(* The calls a client can make.  In the lifecycle specification a variable *)
(* depends on itself and on variables constructed before it (the order the *)
(* repository wires its passes in); dependency cycles through several      *)
(* variables are explored by the chain specification.                      *)
(***************************************************************************)
DataLengths == {ExpectedLength, ExpectedLength + 1}

InitialTextures(v) ==
    (IF v <= NumExtVars THEN ExtTextures ELSE {}) \cup {BadExt}

DepChoices(v) == DepLists({u \in Vars : u <= v})

CallFillTexture(v) ==
    \E length \in DataLengths : Install(fillTexture(Heap, v, length))

CallFillTextureFrom(v) == Install(fillTextureFrom(Heap, v))

CallSetInitialTexture(v) ==
    \E texture \in InitialTextures(v) :
        Install(setInitialTexture(Heap, v, texture))

CallSetDependencies(v) ==
    \E deps \in DepChoices(v) : Install(setDependencies(Heap, v, deps))

CallInit(v) == Install(init(Heap, v))

CallCompute(v) == Install(compute(Heap, v))

CallComputeOnce(v) == Install(computeOnce(Heap, v))

CallComputeChain(v) == Install(computeChain(Heap, v, {}).heap)

CallDestroy(v) == Install(destroy(Heap, v))

(***************************************************************************)
(* The state after the constructors: nothing allocated, nothing wired.     *)
(***************************************************************************)
Constructed(V) ==
    /\ pingTexture = [v \in V |-> NoTex]
    /\ pongTexture = [v \in V |-> NoTex]
    /\ currentIndex = [v \in V |-> 0]
    /\ shader = [v \in V |-> FALSE]
    /\ initialized = [v \in V |-> FALSE]
    /\ destroyed = [v \in V |-> FALSE]
    /\ texturesDestroyed = [v \in V |-> FALSE]
    /\ needsPingPong = [v \in V |-> TRUE]
    /\ externalPingTexture = [v \in V |-> FALSE]
    /\ released = {}
    /\ initDone = {}

\* constructor options with no static sampler and no uniform
VarNames == <<"uA", "uB", "uC", "uD", "uE">>

Unconfigured(V) ==
    /\ name = [v \in V |-> VarNames[v]]
    /\ fragmentShader = [v \in V |-> {}]
    /\ samplers = [v \in V |-> <<>>]
    /\ uniforms = [v \in V |-> <<>>]

\* no distance field is being generated
SdfIdle ==
    /\ seedTexture = [width |-> 0, height |-> 0, on |-> {}]
    /\ fillMaskTexture = {}
    /\ jfa = <<>>
    /\ jfaLoop = 0
    /\ sdfStage = "idle"
    /\ unsignedSDF = <<>>
    /\ signedSDF = <<>>

\* no particle texture has been set up
ParticlesIdle ==
    /\ position = <<>>
    /\ velocity = <<>>
    /\ initEnd = <<>>
    /\ spawn = <<>>
    /\ activated = {}

ComputeTextureNames ==
    {"movementTexture", "attributesTexture", "uParticlesState",
     "uBounceMovement", "jfa", "jfaFinalize", "applySign"}

\* no float format has been asked for and no compute texture created
FormatIdle ==
    /\ extension = FALSE
    /\ colorBufferFloatSupported = "null"
    /\ getExtensionCalls = 0
    /\ computeTextures = [kind \in ComputeTextureNames |-> "none"]

\* generateSDFTex is not running
GenerateIdle ==
    /\ generatePc = "idle"
    /\ uFirst = 1
    /\ uStepSize = 1
    /\ rendered = <<>>

\* no animation controller and no pointer listener
PointerIdle ==
    /\ mousePos = <<0, 0>>
    /\ syncMousePos = TRUE
    /\ uMousePos = <<0, 0>>
    /\ lastPointer = <<0, 0>>
    /\ pointerAfterStop = FALSE
    /\ passMousePos = <<0, 0>>

\* no function has been debounced
DebounceIdle ==
    /\ delay = 0
    /\ timeoutId = 0
    /\ timers = <<>>
    /\ nextTimer = 1
    /\ now = 0
    /\ callLog = <<>>
    /\ funcRuns = <<>>

\* nothing but the compute variables and the passes is in use
FrontIdle == GenerateIdle /\ PointerIdle /\ DebounceIdle

\* no compute variable has been constructed
EngineIdle ==
    /\ Constructed({})
    /\ Unconfigured({})
    /\ dependencies = <<>>
    /\ dependents = <<>>

Init ==
    /\ Constructed(1..NumVars)
    /\ Unconfigured(1..NumVars)
    /\ SdfIdle
    /\ ParticlesIdle
    /\ FormatIdle
    /\ FrontIdle
    /\ dependencies = [v \in 1..NumVars |-> <<>>]
    /\ dependents = [v \in 1..NumVars |-> {}]

Next ==
    \/ \E v \in Vars : CallFillTexture(v)
    \/ \E v \in Vars : CallFillTextureFrom(v)
    \/ \E v \in Vars : CallSetInitialTexture(v)
    \/ \E v \in Vars : CallSetDependencies(v)
    \/ \E v \in Vars : CallInit(v)
    \/ \E v \in Vars : CallCompute(v)
    \/ \E v \in Vars : CallComputeOnce(v)
    \/ \E v \in Vars : CallComputeChain(v)
    \/ \E v \in Vars : CallDestroy(v)

Spec == Init /\ [][Next]_vars

(***************************************************************************)
(* The chain specification: NumChainVars variables that the client seeds   *)
(* with fillTexture and wires with setDependencies into any graph          *)
(* (self-edges, shared dependencies, cycles) before the first pass, as the *)
(* repository does in its setup, and then evaluates with computeChain from *)
(* any root, tick after tick.                                              *)
(***************************************************************************)
\* no variable has been initialized or has rendered yet
Unstarted == \A v \in Vars : ~initialized[v] /\ currentIndex[v] = 0

Seed(v) == Unstarted /\ CallFillTexture(v)

Wire(v) ==
    /\ Unstarted
    /\ \E deps \in DepLists(Vars) : Install(setDependencies(Heap, v, deps))

ChainInit ==
    /\ Constructed(1..NumChainVars)
    /\ Unconfigured(1..NumChainVars)
    /\ SdfIdle
    /\ ParticlesIdle
    /\ FormatIdle
    /\ FrontIdle
    /\ dependencies = [v \in 1..NumChainVars |-> <<>>]
    /\ dependents = [v \in 1..NumChainVars |-> {}]

ChainNext ==
    \/ \E v \in Vars : Seed(v)
    \/ \E v \in Vars : Wire(v)
    \/ \E v \in Vars : CallComputeChain(v)

ChainSpec == ChainInit /\ [][ChainNext]_vars

(***************************************************************************)
(* The assembly specification: one variable constructed with any name, any *)
(* pass body, any static sampler table and any uniform table over a small  *)
(* alphabet, whose dependency list may name it once or twice, taken        *)
(* through its life.                                                       *)
(***************************************************************************)
Names == {"a", "b"}
\* the uniform types handed to the constructor: one PIXI_TO_GLSL_TYPE knows
\* and one it does not
UniformTypes == {"f32", "f64"}
\* longest static sampler table and uniform table
MaxKeys == 2

\* object keys are distinct and keep their insertion order
KeyLists ==
    {q \in UNION {[1..n -> Names] : n \in 0..MaxKeys} :
        \A i, j \in 1..Len(q) : i # j => q[i] # q[j]}

UniformTables ==
    {q \in UNION {[1..n -> Names \X UniformTypes] : n \in 0..MaxKeys} :
        \A i, j \in 1..Len(q) : i # j => q[i][1] # q[j][1]}

\* dependency lists in which a variable may occur more than once
RepeatingDepLists == UNION {[1..n -> Vars] : n \in 0..MaxDeps}

CallSetDependenciesRepeating(v) ==
    \E deps \in RepeatingDepLists : Install(setDependencies(Heap, v, deps))

AssemblyInit ==
    /\ Constructed({1})
    /\ SdfIdle
    /\ ParticlesIdle
    /\ FormatIdle
    /\ FrontIdle
    /\ dependencies = [v \in {1} |-> <<>>]
    /\ dependents = [v \in {1} |-> {}]
    /\ name \in [{1} -> Names]
    /\ fragmentShader \in [{1} -> SUBSET Names]
    /\ samplers \in [{1} -> KeyLists]
    /\ uniforms \in [{1} -> UniformTables]

AssemblyNext ==
    \/ \E v \in Vars : CallSetDependenciesRepeating(v)
    \/ \E v \in Vars : CallFillTexture(v)
    \/ \E v \in Vars : CallInit(v)
    \/ \E v \in Vars : CallCompute(v)
    \/ \E v \in Vars : CallDestroy(v)

AssemblySpec == AssemblyInit /\ [][AssemblyNext]_vars

(***************************************************************************)
(* Distance field generation (src/unnamed/part_001): the seed pass, the    *)
(* propagation passes of the jump flooding algorithm, the finalization     *)
(* pass and the sign pass, each computed texel by texel as its fragment    *)
(* shader computes it.  A texel of the n-th column has vUV.x / uTexelSize.x *)
(* = n + 0.5; coordinates are kept in half pixels (2n + 1) and distances   *)
(* as their squares, in quarter square pixels.                             *)
(***************************************************************************)
\* largest side of a seed seedTexture, largest radius of the shape drawn in it
MaxSide == 5
MaxRadius == 2
\* largest width and height of a seed texture with any pixels on
MaxFreeSide == 3
\* width of the seed textures that are one row high
StripWidth == 1025
\* significand bits of a channel of the 'rgba16float' textures
HalfSignificand == 11

Pixels(t) == (0..(t.width - 1)) \X (0..(t.height - 1))

\* vUV / uTexelSize of a pixel, in half pixels
PixelPos(p) == <<2 * p[1] + 1, 2 * p[2] + 1>>

RECURSIVE Pow2(_)
Pow2(n) == IF n = 0 THEN 1 ELSE 2 * Pow2(n - 1)

\* Math.ceil(Math.log2(n)) for n >= 1
RECURSIVE CeilLog2(_)
CeilLog2(n) == IF n <= 1 THEN 0 ELSE 1 + CeilLog2((n + 1) \div 2)

\* the number of bits of n >= 1
RECURSIVE BitLength(_)
BitLength(n) == IF n <= 1 THEN 1 ELSE 1 + BitLength(n \div 2)

\* a non-negative number of half pixels as a 16-bit float channel stores it:
\* rounded to HalfSignificand significant bits, ties to even
toHalfFloat(h) ==
    IF h = 0 \/ BitLength(h) <= HalfSignificand THEN h
    ELSE LET ulp == Pow2(BitLength(h) - HalfSignificand)
             low == (h \div ulp) * ulp
             rest == h - low
         IN  IF 2 * rest < ulp THEN low
             ELSE IF 2 * rest > ulp THEN low + ulp
             ELSE IF (h \div ulp) % 2 = 0 THEN low ELSE low + ulp

SquaredDistance(a, b) ==
    (a[1] - b[1]) * (a[1] - b[1]) + (a[2] - b[2]) * (a[2] - b[2])

numPasses(t) ==
    CeilLog2(IF t.width >= t.height THEN t.width ELSE t.height)

\* the step growing from 1 instead of shrinking to it
stepSizeGrowing(t, i) == Pow2(i)

stepSize(t, i) == Pow2(numPasses(t) - 1 - i)

\* jfaFragment with uFirst = 1
jfaSeedTexel(t, p) ==
    IF p \in t.on
    THEN <<toHalfFloat(PixelPos(p)[1]), toHalfFloat(PixelPos(p)[2]), 1>>
    ELSE <<0, 0, 0>>

\* the nine offsets in the order of the two loops: dy outside, dx inside
Offsets ==
    <<(<<-1, -1>>), (<<0, -1>>), (<<1, -1>>),
      (<<-1, 0>>), (<<0, 0>>), (<<1, 0>>),
      (<<-1, 1>>), (<<0, 1>>), (<<1, 1>>)>>

\* the reference rule of a propagation pass: of the nine samples that lie
\* inside the texture and have the flag set, the one whose seed is nearest
\* to p, the first in scan order among equals; a cleared zero without one
nearestFlaggedSample(t, tex, step, p) ==
    LET sampleCoord(k) == <<p[1] + Offsets[k][1] * step,
                            p[2] + Offsets[k][2] * step>>
        hits == {k \in 1..9 : /\ sampleCoord(k) \in Pixels(t)
                               /\ tex[sampleCoord(k)][3] = 1}
        dist(k) == SquaredDistance(PixelPos(p),
                       <<tex[sampleCoord(k)][1], tex[sampleCoord(k)][2]>>)
    IN  IF hits = {} THEN <<0, 0, 0>>
        ELSE LET best == CHOOSE k \in hits :
                             \A j \in hits :
                                 dist(k) < dist(j) \/ (dist(k) = dist(j) /\ k <= j)
                 bestSeed == tex[sampleCoord(best)]
             IN  <<toHalfFloat(bestSeed[1]), toHalfFloat(bestSeed[2]), 1>>

\* #define MAX_DIST 1e10, squared: above every squared distance in a texture
\* the model can hold
MAX_DIST == 2147483647

\* the two loops of jfaFragment keeping the later of two equally near seeds
RECURSIVE jfaScanLastWins(_, _, _, _, _, _)
jfaScanLastWins(t, tex, step, p, k, best) ==
    IF k > 9 THEN best
    ELSE LET sampleCoord == <<p[1] + Offsets[k][1] * step,
                              p[2] + Offsets[k][2] * step>>
         IN  IF sampleCoord \notin Pixels(t)
             THEN jfaScanLastWins(t, tex, step, p, k + 1, best)
             ELSE LET sampleValue == tex[sampleCoord]
                      dist == SquaredDistance(PixelPos(p),
                                  <<sampleValue[1], sampleValue[2]>>)
                  IN  IF sampleValue[3] = 1 /\ dist <= best.bestDist
                      THEN jfaScanLastWins(t, tex, step, p, k + 1,
                               [bestSeed |-> <<sampleValue[1], sampleValue[2]>>,
                                bestDist |-> dist])
                      ELSE jfaScanLastWins(t, tex, step, p, k + 1, best)

jfaTexelLastWins(t, tex, step, p) ==
    LET best == jfaScanLastWins(t, tex, step, p, 1,
                    [bestSeed |-> <<0, 0>>, bestDist |-> MAX_DIST])
    IN  IF best.bestDist < MAX_DIST
        THEN <<toHalfFloat(best.bestSeed[1]), toHalfFloat(best.bestSeed[2]), 1>>
        ELSE <<0, 0, 0>>

\* the two loops of jfaFragment from the k-th offset on: a sample outside
\* [0, 1] is passed over, a sample with b > 0.5 nearer than the best so far
\* replaces it
RECURSIVE jfaScan(_, _, _, _, _, _)
jfaScan(t, tex, step, p, k, best) ==
    IF k > 9 THEN best
    ELSE LET sampleCoord == <<p[1] + Offsets[k][1] * step,
                              p[2] + Offsets[k][2] * step>>
         IN  IF sampleCoord \notin Pixels(t)
             THEN jfaScan(t, tex, step, p, k + 1, best)
             ELSE LET sampleValue == tex[sampleCoord]
                      dist == SquaredDistance(PixelPos(p),
                                  <<sampleValue[1], sampleValue[2]>>)
                  IN  IF sampleValue[3] = 1 /\ dist < best.bestDist
                      THEN jfaScan(t, tex, step, p, k + 1,
                               [bestSeed |-> <<sampleValue[1], sampleValue[2]>>,
                                bestDist |-> dist])
                      ELSE jfaScan(t, tex, step, p, k + 1, best)

\* jfaFragment with uFirst = 0, its output stored in the 16-bit channels
jfaTexel(t, tex, step, p) ==
    LET best == jfaScan(t, tex, step, p, 1,
                    [bestSeed |-> <<0, 0>>, bestDist |-> MAX_DIST])
    IN  IF best.bestDist < MAX_DIST
        THEN <<toHalfFloat(best.bestSeed[1]), toHalfFloat(best.bestSeed[2]), 1>>
        ELSE <<0, 0, 0>>

\* jfaFinalizeUnsignedFragment reading encoded.rg whatever encoded.b is
finalizeTexelUnflagged(tex, p) ==
    LET seedPos == <<tex[p][1], tex[p][2]>>
        diff == <<PixelPos(p)[1] - seedPos[1], PixelPos(p)[2] - seedPos[2]>>
    IN  [diff |-> diff, distSq |-> SquaredDistance(PixelPos(p), seedPos),
         resolved |-> TRUE, sign |-> 1]

\* jfaFinalizeUnsignedFragment: the texel stands for the gradient
\* diff / sqrt(distSq) (zero when distSq = 0) and the distance
\* sqrt(distSq) / 2 pixels, or MAX_DIST when no seed was resolved
finalizeTexel(tex, p) ==
    IF tex[p][3] = 1
    THEN LET seedPos == <<tex[p][1], tex[p][2]>>
             diff == <<PixelPos(p)[1] - seedPos[1], PixelPos(p)[2] - seedPos[2]>>
         IN  [diff |-> diff, distSq |-> SquaredDistance(PixelPos(p), seedPos),
              resolved |-> TRUE, sign |-> 1]
    ELSE [diff |-> <<0, 0>>, distSq |-> MAX_DIST, resolved |-> FALSE, sign |-> 1]

\* applySignFragment: dist = -dist and gradient = -gradient under the mask
applySignTexel(sdf, mask, p) ==
    IF p \in mask
    THEN [sdf[p] EXCEPT !.diff = <<0 - @[1], 0 - @[2]>>, !.sign = 0 - @]
    ELSE sdf[p]

\* jfaComputeVar.compute() with uFirst = 1
SeedPass ==
    /\ sdfStage = "start"
    /\ jfa' = [p \in Pixels(seedTexture) |-> jfaSeedTexel(seedTexture, p)]
    /\ jfaLoop' = 0
    /\ sdfStage' = "propagate"
    /\ UNCHANGED <<seedTexture, fillMaskTexture, unsignedSDF, signedSDF>>

\* one turn of the loop: jfaComputeVar.compute() with uStepSize = stepSize
PropagationPass ==
    /\ sdfStage = "propagate"
    /\ jfaLoop < numPasses(seedTexture)
    /\ jfa' = [p \in Pixels(seedTexture) |->
                  jfaTexel(seedTexture, jfa, stepSize(seedTexture, jfaLoop), p)]
    /\ jfaLoop' = jfaLoop + 1
    /\ UNCHANGED <<seedTexture, fillMaskTexture, sdfStage, unsignedSDF, signedSDF>>

\* finalization.computeOnce() after the loop
Finalization ==
    /\ sdfStage = "propagate"
    /\ jfaLoop = numPasses(seedTexture)
    /\ unsignedSDF' = [p \in Pixels(seedTexture) |-> finalizeTexel(jfa, p)]
    /\ sdfStage' = "finalized"
    /\ UNCHANGED <<seedTexture, fillMaskTexture, jfa, jfaLoop, signedSDF>>

\* addSign.computeOnce()
ApplySign ==
    /\ sdfStage = "finalized"
    /\ signedSDF' = [p \in Pixels(seedTexture) |->
                        applySignTexel(unsignedSDF, fillMaskTexture, p)]
    /\ sdfStage' = "signed"
    /\ UNCHANGED <<seedTexture, fillMaskTexture, jfa, jfaLoop, unsignedSDF>>

\* the pixels of t within radius r of the pixel c, and its outline
Disk(t, c, r) == {p \in Pixels(t) : 4 * r * r >= SquaredDistance(PixelPos(p), PixelPos(c))}
Ring(t, c, r) == Disk(t, c, r) \ (IF r = 0 THEN {} ELSE Disk(t, c, r - 1))

\* square seed textures showing a filled disk or its outline, with the
\* filled disk as the fill mask
DiskTextures ==
    \E n \in 1..MaxSide :
         LET t == [width |-> n, height |-> n, on |-> {}]
         IN  \E c \in Pixels(t) : \E r \in 0..MaxRadius :
                 /\ fillMaskTexture = Disk(t, c, r)
                 /\ seedTexture \in {[t EXCEPT !.on = Disk(t, c, r)],
                                 [t EXCEPT !.on = Ring(t, c, r)]}

\* small seed textures of any width and height with any of their pixels on,
\* none included, and nothing filled
FreeTextures ==
    \E w, h \in 1..MaxFreeSide :
         LET t == [width |-> w, height |-> h, on |-> {}]
         IN  /\ fillMaskTexture = {}
             /\ \E on \in SUBSET Pixels(t) : seedTexture = [t EXCEPT !.on = on]

\* one row of a wide seed texture, with its first or its last pixel on
StripTextures ==
    /\ fillMaskTexture = {}
    /\ \E c \in {0, StripWidth - 1} :
           seedTexture = [width |-> StripWidth, height |-> 1, on |-> {<<c, 0>>}]

SdfInit ==
    /\ EngineIdle
    /\ ParticlesIdle
    /\ FormatIdle
    /\ FrontIdle
    /\ DiskTextures \/ FreeTextures \/ StripTextures
    /\ jfa = <<>>
    /\ jfaLoop = 0
    /\ sdfStage = "start"
    /\ unsignedSDF = <<>>
    /\ signedSDF = <<>>

SdfNext ==
    \/ SeedPass /\ UNCHANGED <<engineVars, particleVars, formatVars, generateVars, pointerVars, debounceVars>>
    \/ PropagationPass /\ UNCHANGED <<engineVars, particleVars, formatVars, generateVars, pointerVars, debounceVars>>
    \/ Finalization /\ UNCHANGED <<engineVars, particleVars, formatVars, generateVars, pointerVars, debounceVars>>
    \/ ApplySign /\ UNCHANGED <<engineVars, particleVars, formatVars, generateVars, pointerVars, debounceVars>>

SdfSpec == SdfInit /\ [][SdfNext]_vars

(***************************************************************************)
(* The particle simulation pass (src/unnamed/part_003) on the texels of    *)
(* the movement texture initMovementShader (src/unnamed/part_002) has      *)
(* filled.  Numbers are integers: a position and a velocity are pairs, dt  *)
(* is in milliseconds, exp(-x) halves per unit of x, the force on an       *)
(* active particle is the stiffness along a fixed gradient direction and   *)
(* the mass, which the shader keeps at 0.05 or more, is one.               *)
(***************************************************************************)
NumParticles == 2
\* largest coordinate and largest speed a pass may reach
MaxCoord == 3
MaxSpeed == 2
\* the animation phases
MaxPhase == 2

Particles == DOMAIN position

\* positions initMovementShader hashes the particles to
SpawnPoints == {<<0, 0>>, <<1, -1>>}

\* the uniforms of one pass
PassUniforms ==
    [dt : {0, 1000}, uPhase : 0..MaxPhase, stiffness : {-1, 1},
     globalDamping : {0, 1}]

gradientDir == <<1, -1>>

Scale(vec, k) == <<vec[1] * k, vec[2] * k>>
Plus(a, b) == <<a[1] + b[1], a[2] + b[2]>>

\* division rounding toward zero
Quot(a, b) == IF a >= 0 THEN a \div b ELSE 0 - ((0 - a) \div b)

\* velocity *= exp(-x), for x >= 0
dampen(vec, x) == <<Quot(vec[1], Pow2(x)), Quot(vec[2], Pow2(x))>>

\* the simulation shader applying its force to every particle
simulationTexelUngated(pos, vel, end, u) ==
    LET dtSec == u.dt \div 1000
        F_total == Scale(gradientDir, u.stiffness)
        acceleration == F_total
        velocity1 == Plus(vel, Scale(acceleration, dtSec))
        velocity2 == dampen(velocity1, u.globalDamping * dtSec)
    IN  [position |-> Plus(pos, Scale(velocity2, dtSec)), velocity |-> velocity2]

\* simulationShader main for one texel
simulationTexel(pos, vel, end, u) ==
    LET dtSec == u.dt \div 1000
        F_total == IF end <= u.uPhase
                   THEN Scale(gradientDir, u.stiffness)
                   ELSE <<0, 0>>
        acceleration == F_total
        velocity1 == Plus(vel, Scale(acceleration, dtSec))
        velocity2 == dampen(velocity1, u.globalDamping * dtSec)
    IN  [position |-> Plus(pos, Scale(velocity2, dtSec)), velocity |-> velocity2]

InRange(vec, bound) ==
    /\ vec[1] \in (0 - bound)..bound
    /\ vec[2] \in (0 - bound)..bound

\* simulation.compute() with the uniforms u
SimulationPass ==
    \E u \in PassUniforms :
        LET out == [p \in Particles |->
                       simulationTexel(position[p], velocity[p], initEnd[p], u)]
        IN  /\ \A p \in Particles :
                   /\ InRange(out[p].position, MaxCoord)
                   /\ InRange(out[p].velocity, MaxSpeed)
            /\ position' = [p \in Particles |-> out[p].position]
            /\ velocity' = [p \in Particles |-> out[p].velocity]
            /\ activated' = activated \cup {p \in Particles : initEnd[p] <= u.uPhase}
            /\ UNCHANGED <<initEnd, spawn>>

\* the movement and attributes textures as their init shaders leave them
ParticlesInit ==
    /\ EngineIdle
    /\ SdfIdle
    /\ FormatIdle
    /\ FrontIdle
    /\ spawn \in [1..NumParticles -> SpawnPoints]
    /\ position = spawn
    /\ velocity = [p \in 1..NumParticles |-> <<0, 0>>]
    /\ initEnd \in [1..NumParticles -> 1..MaxPhase]
    /\ activated = {}

ParticlesNext ==
    SimulationPass /\ UNCHANGED <<engineVars, sdfVars, formatVars, generateVars, pointerVars, debounceVars>>

ParticlesSpec == ParticlesInit /\ [][ParticlesNext]_vars

(***************************************************************************)
(* The float format probe (src/src/utils/floatTextureFormat.ts) and the    *)
(* places that create compute textures.                                    *)
(***************************************************************************)
\* gl.getExtension calls counted up to this
MaxQueries == 2

\* supportsColorBufferFloat(renderer): the answer, the cache and the count
supportsColorBufferFloat ==
    IF colorBufferFloatSupported # "null"
    THEN [result |-> colorBufferFloatSupported = "true",
          cache |-> colorBufferFloatSupported,
          calls |-> getExtensionCalls]
    ELSE [result |-> extension,
          cache |-> IF extension THEN "true" ELSE "false",
          calls |-> IF getExtensionCalls < MaxQueries
                    THEN getExtensionCalls + 1 ELSE getExtensionCalls]

getFloatTextureFormat ==
    IF supportsColorBufferFloat.result THEN "rgba32float" ELSE "rgba16float"

\* the compute textures and how their creation names the format:
\* "probe" is getFloatTextureFormat(renderer), the others are literals
FormatAt ==
    "movementTexture" :> "probe" @@ "attributesTexture" :> "probe" @@
    "uParticlesState" :> "probe" @@ "uBounceMovement" :> "rgba32float" @@
    "jfa" :> "rgba16float" @@ "jfaFinalize" :> "rgba16float" @@
    "applySign" :> "rgba16float"

\* creating the texture(s) of one of them
CreateTexture(kind) ==
    IF FormatAt[kind] = "probe"
    THEN /\ computeTextures' = [computeTextures EXCEPT ![kind] = getFloatTextureFormat]
         /\ colorBufferFloatSupported' = supportsColorBufferFloat.cache
         /\ getExtensionCalls' = supportsColorBufferFloat.calls
         /\ UNCHANGED extension
    ELSE /\ computeTextures' = [computeTextures EXCEPT ![kind] = FormatAt[kind]]
         /\ UNCHANGED <<extension, colorBufferFloatSupported, getExtensionCalls>>

CreateMovementTexture == CreateTexture("movementTexture")
CreateAttributesTexture == CreateTexture("attributesTexture")
CreateSimulation == CreateTexture("uParticlesState")
CreateMouseBounceRunner == CreateTexture("uBounceMovement")
CreateJfa == CreateTexture("jfa")
CreateJfaFinalize == CreateTexture("jfaFinalize")
CreateApplySign == CreateTexture("applySign")

FormatInit ==
    /\ EngineIdle
    /\ SdfIdle
    /\ ParticlesIdle
    /\ FrontIdle
    /\ extension \in BOOLEAN
    /\ colorBufferFloatSupported = "null"
    /\ getExtensionCalls = 0
    /\ computeTextures = [kind \in ComputeTextureNames |-> "none"]

FormatNext ==
    \/ CreateMovementTexture /\ UNCHANGED <<engineVars, sdfVars, particleVars, generateVars, pointerVars, debounceVars>>
    \/ CreateAttributesTexture /\ UNCHANGED <<engineVars, sdfVars, particleVars, generateVars, pointerVars, debounceVars>>
    \/ CreateSimulation /\ UNCHANGED <<engineVars, sdfVars, particleVars, generateVars, pointerVars, debounceVars>>
    \/ CreateMouseBounceRunner /\ UNCHANGED <<engineVars, sdfVars, particleVars, generateVars, pointerVars, debounceVars>>
    \/ CreateJfa /\ UNCHANGED <<engineVars, sdfVars, particleVars, generateVars, pointerVars, debounceVars>>
    \/ CreateJfaFinalize /\ UNCHANGED <<engineVars, sdfVars, particleVars, generateVars, pointerVars, debounceVars>>
    \/ CreateApplySign /\ UNCHANGED <<engineVars, sdfVars, particleVars, generateVars, pointerVars, debounceVars>>

FormatSpec == FormatInit /\ [][FormatNext]_vars

(***************************************************************************)
(* generateSDFTex (src/unnamed/part_001) statement by statement on its two *)
(* compute variables: 1 is jfaComputeVar and 2 is finalization.  The       *)
(* texture handed in has any width and height; its content does not bear   *)
(* on which passes run and which textures they bind.                       *)
(***************************************************************************)
\* largest width and height of the texture handed to generateSDFTex
MaxGenerateSide == 9

jfaComputeVar == 1
finalization == 2

\* the constructor options of the two variables
GenerateOptions ==
    /\ name = <<"jfa", "jfaFinalize">>
    /\ fragmentShader = <<{}, {}>>
    /\ samplers = <<(<<"uTex">>), <<>>>>
    /\ uniforms = <<(<<(<<"uTexelSize", "vec2<f32>">>), (<<"uStepSize", "f32">>),
                      (<<"uFirst", "f32">>)>>),
                    (<<(<<"uTexelSize", "vec2<f32>">>)>>)>>

\* the passes a call has rendered, each with the uniforms it ran under
WithUniforms(passes) ==
    [k \in 1..Len(passes) |->
        [v |-> passes[k].v, target |-> passes[k].target,
         samplers |-> passes[k].samplers, reads |-> passes[k].reads,
         uFirst |-> uFirst', uStepSize |-> uStepSize']]

\* one statement: the call's effect on the objects, the passes it rendered,
\* and where generateSDFTex goes on, unless the call threw
Statement(s, next) ==
    /\ InstallHeap(s)
    /\ rendered' = rendered \o WithUniforms(s.passes)
    /\ generatePc' = IF s.threw THEN "threw" ELSE next
    /\ UNCHANGED <<seedTexture, fillMaskTexture, jfa, sdfStage, unsignedSDF,
                   signedSDF, particleVars, formatVars, pointerVars,
                   debounceVars>>

\* jfaComputeVar.fillTextureFrom(texture)
GenFillTextureFrom ==
    /\ generatePc = "fillTextureFrom"
    /\ Statement(fillTextureFrom(Heap, jfaComputeVar), "setDependencies")
    /\ UNCHANGED <<uFirst, uStepSize, jfaLoop>>

\* jfaComputeVar.setDependencies([jfaComputeVar])
GenSetDependencies ==
    /\ generatePc = "setDependencies"
    /\ Statement(setDependencies(Heap, jfaComputeVar, <<jfaComputeVar>>), "compute")
    /\ UNCHANGED <<uFirst, uStepSize, jfaLoop>>

\* jfaComputeVar.compute(), with uFirst = 1 as constructed
GenSeedPass ==
    /\ generatePc = "compute"
    /\ UNCHANGED <<uFirst, uStepSize, jfaLoop>>
    /\ Statement(compute(Heap, jfaComputeVar), "uFirst")

\* jfaComputeVar.uniforms.uFirst.value = 0.0, and let i = 0
GenClearFirst ==
    /\ generatePc = "uFirst"
    /\ uFirst' = 0
    /\ jfaLoop' = 0
    /\ UNCHANGED uStepSize
    /\ Statement(Heap, "for")

\* one turn of the loop: uStepSize.value = stepSize, compute(), i++
GenPropagationPass ==
    /\ generatePc = "for"
    /\ jfaLoop < numPasses(seedTexture)
    /\ uStepSize' = stepSize(seedTexture, jfaLoop)
    /\ jfaLoop' = jfaLoop + 1
    /\ UNCHANGED uFirst
    /\ Statement(compute(Heap, jfaComputeVar), "for")

\* the loop is left and jfaComputeVar.destroy() runs
GenDestroy ==
    /\ generatePc = "for"
    /\ ~(jfaLoop < numPasses(seedTexture))
    /\ UNCHANGED <<uFirst, uStepSize, jfaLoop>>
    /\ Statement(destroy(Heap, jfaComputeVar), "finalization")

\* finalization.setDependencies([jfaComputeVar])
GenWireFinalization ==
    /\ generatePc = "finalization"
    /\ UNCHANGED <<uFirst, uStepSize, jfaLoop>>
    /\ Statement(setDependencies(Heap, finalization, <<jfaComputeVar>>), "computeOnce")

\* finalization.computeOnce()
GenFinalize ==
    /\ generatePc = "computeOnce"
    /\ UNCHANGED <<uFirst, uStepSize, jfaLoop>>
    /\ Statement(computeOnce(Heap, finalization), "release")

\* jfaComputeVar.getCurrentTexture().destroy(), and return
GenRelease ==
    /\ generatePc = "release"
    /\ UNCHANGED <<uFirst, uStepSize, jfaLoop>>
    /\ Statement([Heap EXCEPT !.released =
                      @ \cup {getCurrentTexture(Heap, jfaComputeVar)}], "return")

GenerateInit ==
    /\ Constructed({jfaComputeVar, finalization})
    /\ GenerateOptions
    /\ dependencies = <<(<<>>), <<>>>>
    /\ dependents = <<{}, {}>>
    /\ ParticlesIdle
    /\ FormatIdle
    /\ PointerIdle
    /\ DebounceIdle
    /\ \E w, h \in 1..MaxGenerateSide :
           seedTexture = [width |-> w, height |-> h, on |-> {}]
    /\ fillMaskTexture = {}
    /\ jfa = <<>>
    /\ jfaLoop = 0
    /\ sdfStage = "idle"
    /\ unsignedSDF = <<>>
    /\ signedSDF = <<>>
    /\ generatePc = "fillTextureFrom"
    /\ uFirst = 1
    /\ uStepSize = 1
    /\ rendered = <<>>

GenerateNext ==
    \/ GenFillTextureFrom
    \/ GenSetDependencies
    \/ GenSeedPass
    \/ GenClearFirst
    \/ GenPropagationPass
    \/ GenDestroy
    \/ GenWireFinalization
    \/ GenFinalize
    \/ GenRelease

GenerateSpec == GenerateInit /\ [][GenerateNext]_vars

(***************************************************************************)
(* The teardown specification: the variables of the chain specification,   *)
(* seeded or not, wired into any graph and evaluated tick after tick, and  *)
(* then destroyed, each once, in any order.  No variable is wired, seeded  *)
(* or evaluated once the first destroy() has been called.                  *)
(***************************************************************************)
\* destroy() has been called on no variable yet
Untouched == \A v \in Vars : ~destroyed[v]

TearSeed(v) == Untouched /\ Seed(v)

TearWire(v) == Untouched /\ Wire(v)

TearComputeChain(v) == Untouched /\ CallComputeChain(v)

TearDestroy(v) == ~destroyed[v] /\ CallDestroy(v)

TeardownNext ==
    \/ \E v \in Vars : TearSeed(v)
    \/ \E v \in Vars : TearWire(v)
    \/ \E v \in Vars : TearComputeChain(v)
    \/ \E v \in Vars : TearDestroy(v)

TeardownSpec == ChainInit /\ [][TeardownNext]_vars

(***************************************************************************)
(* The mouse position of the mouse layer (src/unnamed/part_005, part_006,  *)
(* src/src/animations/cursorAnimation.ts).  The timeline's onRender calls  *)
(* AnimationController.sync(), the cursor animation tweens values.mousePos *)
(* and once sets values.syncMousePos to false, the document's listeners    *)
(* write the uniform on pointermove and touchend, and the ticker runs the  *)
(* pass that reads it; all of them are callbacks of the one event loop and *)
(* run in any order.  A position in simulation units is kept multiplied by *)
(* twice the base width, at scale 1.                                       *)
(***************************************************************************)
\* app.screen.width and app.screen.height, in pixels
ScreenWidth == 2
ScreenHeight == 2

\* n simulation units
SimUnits(n) == n * 2 * ScreenWidth

\* pxToSim(x, y) of context.ts
pxToSim(x, y) == <<2 * x - ScreenWidth, 2 * y - ScreenHeight>>

\* the client coordinates of the pointer events and of the cursor tween
ClientPoints == {<<0, 0>>, <<ScreenWidth, ScreenHeight>>}

\* AnimationController.sync() writing uMousePos whatever syncMousePos is
syncAlways == [uMousePos |-> <<mousePos[1], mousePos[2]>>]

\* AnimationController.sync(): what it leaves in uMousePos
sync ==
    [uMousePos |-> IF syncMousePos THEN <<mousePos[1], mousePos[2]>>
                   ELSE uMousePos]

\* timeline.onRender
Sync ==
    /\ uMousePos' = sync.uMousePos
    /\ UNCHANGED <<mousePos, syncMousePos, lastPointer, pointerAfterStop,
                   passMousePos>>

\* the tween of values.mousePos started by the cursor animation
TweenMousePos ==
    /\ \E c \in ClientPoints : mousePos' = pxToSim(c[1], c[2])
    /\ UNCHANGED <<syncMousePos, uMousePos, lastPointer, pointerAfterStop,
                   passMousePos>>

\* the cursor animation's call: values.syncMousePos = false
StopSync ==
    /\ syncMousePos
    /\ syncMousePos' = FALSE
    /\ UNCHANGED <<mousePos, uMousePos, lastPointer, pointerAfterStop,
                   passMousePos>>

\* a handler of the document has written value to the uniform
PointerWrites(value) ==
    /\ uMousePos' = value
    /\ lastPointer' = value
    /\ pointerAfterStop' = (pointerAfterStop \/ ~syncMousePos)
    /\ UNCHANGED <<mousePos, syncMousePos, passMousePos>>

\* document's pointermove listener
PointerMove == \E c \in ClientPoints : PointerWrites(pxToSim(c[1], c[2]))

\* document's touchend listener
TouchEnd == PointerWrites(<<SimUnits(100), SimUnits(100)>>)

\* app.ticker: mouseBounceRunner.computeChain() reads the uniform
TickerPass ==
    /\ passMousePos' = uMousePos
    /\ UNCHANGED <<mousePos, syncMousePos, uMousePos, lastPointer,
                   pointerAfterStop>>

PointerInit ==
    /\ EngineIdle
    /\ SdfIdle
    /\ ParticlesIdle
    /\ FormatIdle
    /\ GenerateIdle
    /\ DebounceIdle
    /\ mousePos = <<SimUnits(10000), SimUnits(10000)>>
    /\ syncMousePos = TRUE
    /\ uMousePos = <<0, 0>>
    /\ lastPointer = <<0, 0>>
    /\ pointerAfterStop = FALSE
    /\ passMousePos = <<0, 0>>

PointerRest ==
    UNCHANGED <<engineVars, sdfVars, particleVars, formatVars, generateVars,
                debounceVars>>

PointerNext ==
    \/ Sync /\ PointerRest
    \/ TweenMousePos /\ PointerRest
    \/ StopSync /\ PointerRest
    \/ PointerMove /\ PointerRest
    \/ TouchEnd /\ PointerRest
    \/ TickerPass /\ PointerRest

PointerSpec == PointerInit /\ [][PointerNext]_vars

(***************************************************************************)
(* debounce(func, delay) (src/src/utils/debounce.ts), as main uses it for  *)
(* updateResolution behind the window's resize listener.  The closure      *)
(* holds timeoutId; the browser holds the pending timers, hands out timer  *)
(* ids in increasing order and runs a timer's callback no earlier than its *)
(* due time.  Calls of the debounced function and timer callbacks are      *)
(* tasks of the one event loop.  func does not call the debounced function *)
(* itself; it either returns or throws.                                    *)
(***************************************************************************)
\* the largest delay, in ticks of the clock
MaxDelay == 2

\* the number of calls of the debounced function
MaxCalls == 3

\* the time the clock stops at
MaxTime == 4

\* ...args of a call
ArgLists == {<<>>, <<1>>, <<2>>}

\* the closure of the debounced function and the browser's timer list
TimerState == [timeoutId |-> timeoutId, timers |-> timers, nextTimer |-> nextTimer]

\* clearTimeout that cancels nothing
clearTimeoutNothing(pending, id) == pending

\* clearTimeout(id): a timer that is not pending is left alone
clearTimeout(pending, id) == [i \in DOMAIN pending \ {id} |-> pending[i]]

\* setTimeout(callback, delay) at time: the callback holds args; call is the
\* number of the call that started the timer
setTimeout(pending, id, args, call, time) ==
    [i \in DOMAIN pending \cup {id} |->
        IF i = id THEN [due |-> time + delay, args |-> args, call |-> call]
        ELSE pending[i]]

\* the function debounce returns, called with args at time
debounced(c, args, call, time) ==
    LET pending == IF c.timeoutId # 0 THEN clearTimeout(c.timers, c.timeoutId)
                   ELSE c.timers
    IN  [timeoutId |-> c.nextTimer,
         timers    |-> setTimeout(pending, c.nextTimer, args, call, time),
         nextTimer |-> c.nextTimer + 1]

\* the resize listener calls the debounced function
Call ==
    /\ Len(callLog) < MaxCalls
    /\ \E args \in ArgLists :
           LET c == debounced(TimerState, args, Len(callLog) + 1, now)
           IN  /\ timeoutId' = c.timeoutId
               /\ timers' = c.timers
               /\ nextTimer' = c.nextTimer
               /\ callLog' = Append(callLog, [time |-> now, args |-> args])
    /\ UNCHANGED <<delay, now, funcRuns>>

\* the callback of timer id runs: func(...args), then timeoutId = null
\* unless func threw
TimerFires(id, throws) ==
    /\ id \in DOMAIN timers
    /\ timers[id].due <= now
    /\ timers' = [i \in DOMAIN timers \ {id} |-> timers[i]]
    /\ funcRuns' = Append(funcRuns, [time  |-> now,
                                     args  |-> timers[id].args,
                                     call  |-> timers[id].call,
                                     calls |-> Len(callLog)])
    /\ timeoutId' = IF throws THEN timeoutId ELSE 0
    /\ UNCHANGED <<delay, nextTimer, now, callLog>>

\* the clock advances
Tick ==
    /\ now < MaxTime
    /\ now' = now + 1
    /\ UNCHANGED <<delay, timeoutId, timers, nextTimer, callLog, funcRuns>>

DebounceInit ==
    /\ EngineIdle
    /\ SdfIdle
    /\ ParticlesIdle
    /\ FormatIdle
    /\ GenerateIdle
    /\ PointerIdle
    /\ delay \in 1..MaxDelay
    /\ timeoutId = 0
    /\ timers = <<>>
    /\ nextTimer = 1
    /\ now = 0
    /\ callLog = <<>>
    /\ funcRuns = <<>>

DebounceRest ==
    UNCHANGED <<engineVars, sdfVars, particleVars, formatVars, generateVars,
                pointerVars>>

DebounceNext ==
    \/ Call /\ DebounceRest
    \/ (\E id \in DOMAIN timers : TimerFires(id, FALSE)) /\ DebounceRest
    \/ (\E id \in DOMAIN timers : TimerFires(id, TRUE)) /\ DebounceRest
    \/ Tick /\ DebounceRest

DebounceSpec == DebounceInit /\ [][DebounceNext]_vars

(***************************************************************************)
(* Properties.  A property of a call is stated on the result of the        *)
(* method's operator in every reachable state, which is the state the call *)
(* is made in.                                                             *)
(***************************************************************************)
SelfDependent(v) == v \in Range(dependencies[v])

\* the passes that compute(), computeOnce() or computeChain() called on v in
\* the present state would render
PassesFrom(v) ==
    LET runs == {compute(Heap, v).passes, computeOnce(Heap, v).passes,
                 computeChain(Heap, v, {}).heap.passes}
    IN  UNION {Range(q) : q \in runs}

\* the texture a pass has bound to the sampler named after its own variable
SelfInputs(p) == {p.reads[i] : i \in {j \in 1..Len(p.samplers) : p.samplers[j] = p.v}}

\* C1: in every pass of a variable that lists itself among its dependencies
\* the render target is a different texture from the one bound as its own
\* sampler input, after any sequence of calls.
WriteTargetIsNotOwnInput ==
    \A v \in Vars : \A p \in PassesFrom(v) : p.target \notin SelfInputs(p)

\* C5: for a variable with a self-dependency, compute() leaves as current
\* the buffer it has just written and as alternate the buffer that was
\* current before, and these differ, so that the current texture after an
\* odd number of calls is not the one after an even number.
PingPongAlternates ==
    \A v \in Vars :
        SelfDependent(v) =>
            LET r == compute(Heap, v)
            IN  ~r.threw =>
                    /\ Len(r.passes) = 1
                    /\ getCurrentTexture(r, v) = r.passes[1].target
                    /\ getAlternateTexture(r, v) \in SelfInputs(r.passes[1])
                    /\ getCurrentTexture(r, v) # getAlternateTexture(r, v)
                    /\ getCurrentTexture(compute(r, v), v) # getCurrentTexture(r, v)

\* C6: a variable that does not list itself as a dependency has, once
\* initialized, one texture: current and alternate are the same, also
\* when it was seeded with fillTexture or fillTextureFrom before init().
SingleTextureWithoutSelfDependency ==
    \A v \in Vars :
        initialized[v] /\ ~SelfDependent(v) =>
            /\ getCurrentTexture(Heap, v) = getAlternateTexture(Heap, v)
            /\ pingTexture[v] = pongTexture[v]

\* C9: the lifecycle is monotone: once destroy() has run on a variable, no
\* later call makes it initialized again, gives it a shader again, or makes
\* it render a pass.
DestroyedStaysDestroyed ==
    \A v \in Vars :
        destroyed[v] =>
            /\ ~initialized[v]
            /\ ~shader[v]
            /\ \A p \in PassesFrom(v) : p.v # v
            /\ ~init(Heap, v).initialized[v]

\* C10: init() on an initialized variable throws and changes nothing;
\* compute() on a variable that is not initialized runs init() before its
\* pass, and compute() runs init() on no variable that init() has already
\* completed on.
InitRunsOnce ==
    \A v \in Vars :
        /\ initialized[v] => init(Heap, v) = Throw(Heap)
        /\ LET r == compute(Heap, v)
           IN  /\ ~initialized[v] /\ ~r.threw =>
                       r.initialized[v] /\ r.passes[1].inited
               /\ v \in initDone =>
                       \A k \in 1..Len(r.passes) : ~r.passes[k].inited

\* C4: no texture handed to a variable through setInitialTexture is ever
\* released.
ExternalTextureNeverReleased == released \cap ExtTextures = {}

\* the textures backing v
Backing(v) == {pingTexture[v], pongTexture[v]} \ {NoTex}

\* C2: a step that releases a texture backing a variable ends in a state
\* where that variable is destroyed and has no dependents.
ReleaseOnlyWhenUnreferenced ==
    [][\A v \in Vars :
          \A t \in (released' \ released) \cap {pingTexture'[v], pongTexture'[v]} :
              destroyed'[v] /\ dependents'[v] = {}]_vars

\* C2, reached: a destroyed producer whose own pong buffer has been released,
\* next to its destroyed consumer.
ReleasedAfterLastDependent ==
    \E v, d \in Vars :
        /\ v # d
        /\ destroyed[v] /\ destroyed[d] /\ v \in initDone /\ d \in initDone
        /\ texturesDestroyed[v] /\ dependents[v] = {}
        /\ PongOf(v) \in released

\* D is live and lists V
LiveDependent(D, V) == ~destroyed[D] /\ V \in Range(dependencies[D])

RECURSIVE Closure(_)
Closure(S) ==
    LET step == S \cup UNION {Range(dependencies[x]) : x \in S}
    IN  IF step = S THEN S ELSE Closure(step)

\* y depends on x, directly or through other variables
DependsOn(y, x) == x \in Closure(Range(dependencies[y]))

\* in the passes q, pass k reads its i-th dependency from a pass made earlier
ReadsFromEarlierPass(q, k, i) ==
    \E j \in 1..(k - 1) :
        q[j].v = q[k].samplers[i] /\ q[k].reads[i] = q[j].target

\* C7 as claimed: on any dependency graph, in one computeChain() a pass
\* begins only after every dependency of its variable (the self-edge left
\* out) has run its pass, and reads that pass's output.
DependenciesRunFirst ==
    \A root \in Vars :
        LET q == computeChain(Heap, root, {}).heap.passes
        IN  \A k \in 1..Len(q) : \A i \in 1..Len(q[k].samplers) :
                q[k].samplers[i] # q[k].v => ReadsFromEarlierPass(q, k, i)

\* C7 as amended: the same for every dependency that does not itself depend
\* on the variable, that is, everywhere but along a dependency cycle.
DependenciesOffCyclesRunFirst ==
    \A root \in Vars :
        LET q == computeChain(Heap, root, {}).heap.passes
        IN  \A k \in 1..Len(q) : \A i \in 1..Len(q[k].samplers) :
                /\ q[k].samplers[i] # q[k].v
                /\ ~DependsOn(q[k].samplers[i], q[k].v)
                => ReadsFromEarlierPass(q, k, i)

\* C7, reached: after a tick, a graph with no cycle in which variable 1
\* reads 2 and 3 and variable 2 reads 3, computed again from 1 in the
\* order 3, 2, 1.
SharedDependencyComputed ==
    /\ dependencies[1] = <<2, 3>> /\ dependencies[2] = <<3>>
    /\ dependencies[3] = <<3>>
    /\ initDone = {1, 2, 3}
    /\ LET q == computeChain(Heap, 1, {}).heap.passes
       IN  Len(q) = 3 /\ q[1].v = 3 /\ q[2].v = 2 /\ q[3].v = 1

\* C8: computeChain() on any root of any graph runs exactly one pass on the
\* root and on every variable the dependency edges lead to from it, and on
\* no other variable.
ChainComputesReachableOnce ==
    \A root \in Vars :
        LET q == computeChain(Heap, root, {}).heap.passes
        IN  /\ {q[k].v : k \in 1..Len(q)} = Closure({root})
            /\ Len(q) = Cardinality(Closure({root}))

\* C11: once init() has completed on a variable, fillTexture,
\* fillTextureFrom and setInitialTexture on it throw, at any later point of
\* its life, and change neither its textures nor its external-ownership
\* flag.
SeedingAfterInitFails ==
    \A v \in Vars :
        v \in initDone =>
            /\ fillTexture(Heap, v, ExpectedLength) = Throw(Heap)
            /\ fillTextureFrom(Heap, v) = Throw(Heap)
            /\ \A texture \in ExtTextures :
                   setInitialTexture(Heap, v, texture) = Throw(Heap)

\* C12: a seeding call that violates its shape precondition throws at that
\* call and leaves everything as it was: fillTexture with a data length
\* other than width*height*4 creates and writes no texture, and
\* setInitialTexture with a texture of another size neither replaces the
\* ping texture nor sets the external-ownership flag.
ShapeViolationChangesNothing ==
    \A v \in Vars :
        /\ fillTexture(Heap, v, ExpectedLength + 1) = Throw(Heap)
        /\ setInitialTexture(Heap, v, BadExt) = Throw(Heap)

\* C12, reached: a variable another one already reads, not yet seeded, on
\* which well-shaped seeding calls would create textures and take over the
\* caller's texture, and the ill-shaped ones throw.
UnseededVariableRejectsBadShape ==
    \E v \in Vars :
        /\ ~initialized[v] /\ ~destroyed[v] /\ dependents[v] # {}
        /\ pingTexture[v] = NoTex /\ ~externalPingTexture[v]
        /\ fillTexture(Heap, v, ExpectedLength).work # <<>>
        /\ fillTexture(Heap, v, ExpectedLength + 1).threw
        /\ \E texture \in ExtTextures :
               setInitialTexture(Heap, v, texture).externalPingTexture[v]
        /\ setInitialTexture(Heap, v, BadExt).threw

\* C13: computeOnce() on a variable that init() never completed on runs
\* exactly one pass, of that variable, and leaves it destroyed with, as its
\* current texture, the one that pass rendered into, not released, with or
\* without a self-dependency and dependents; on an initialized variable it
\* throws and runs no pass.
ComputeOnceKeepsItsOutput ==
    \A v \in Vars :
        LET r == computeOnce(Heap, v)
        IN  /\ v \notin initDone =>
                   /\ Len(r.passes) = 1
                   /\ r.passes[1].v = v
                   /\ r.destroyed[v]
                   /\ getCurrentTexture(r, v) = r.passes[1].target
                   /\ getCurrentTexture(r, v) \notin r.released
            /\ initialized[v] => r.threw /\ r.passes = <<>>

\* C14: destroy() on a destroyed variable releases no texture and changes no
\* dependents set and no flag, and a destroyed variable stays destroyed, so
\* that every destroy() after the first finds it so.
DestroyIsIdempotent ==
    [][\A v \in Vars :
          destroyed[v] => destroyed'[v] /\ destroy(Heap, v) = Heap]_vars

\* C14, reached: a destroyed variable that was initialized again, whose
\* textures are still held for a live dependent.
DestroyedAmidLiveGraph ==
    \E v, d \in Vars :
        /\ v # d /\ destroyed[v] /\ initialized[v] /\ shader[v]
        /\ ~texturesDestroyed[v]
        /\ ~destroyed[d] /\ dependents[v] = {d}
        /\ destroy(Heap, v) = Heap

\* the names createShader may inject a declaration for
InjectableNames(v) ==
    {name[d] : d \in Range(dependencies[v])} \cup Range(samplers[v])
        \cup {uniforms[v][i][1] : i \in 1..Len(uniforms[v])}

\* how many declarations of n the injected code has
DeclarationCount(code, n) == Cardinality({i \in 1..Len(code) : code[i][2] = n})

\* C15: in the shader init() assembles, the injected code declares every
\* dependency name, static sampler name and uniform key at most once, and
\* not at all when the pass body already declares it as a uniform, for
\* every dependency list, sampler table and uniform table.
InjectedDeclarationsAreUnique ==
    \A v \in Vars :
        ~initialized[v] /\ ~init(Heap, v).threw =>
            \A n \in InjectableNames(v) :
                /\ DeclarationCount(codeToInject(Heap, v), n) <= 1
                /\ isUniformDeclared(fragmentShader[v], n) =>
                       DeclarationCount(codeToInject(Heap, v), n) = 0

\* v was constructed with a uniform whose type PIXI_TO_GLSL_TYPE lacks
UnknownKindKeys(v) ==
    {uniforms[v][i][1] : i \in {j \in 1..Len(uniforms[v]) :
        uniforms[v][j][2] \notin DOMAIN PIXI_TO_GLSL_TYPE}}

\* C16: a variable constructed with a uniform of an unrecognised kind has
\* had no texture created, is not initialized, and init() on it throws an
\* error naming the variable and that uniform's key without having issued
\* any GPU command.
UnknownUniformFailsBeforeGPUWork ==
    \A v \in Vars :
        UnknownKindKeys(v) # {} =>
            /\ pingTexture[v] = NoTex /\ pongTexture[v] = NoTex
            /\ ~initialized[v]
            /\ LET r == init(Heap, v)
               IN  /\ r.threw
                   /\ Len(r.error) = 4
                   /\ r.error[1] = "Unknown uniform type"
                   /\ r.error[2] = name[v]
                   /\ r.error[4] \in UnknownKindKeys(v)
                   /\ r.work = <<>>

\* C17: for a seed texture with exactly one pixel on, at (cx, cy), after the
\* seed pass and all propagation passes every pixel holds the seed
\* (cx, cy), and finalization gives every pixel (x, y) the squared distance
\* (x-cx)^2 + (y-cy)^2 and a gradient along (x-cx, y-cy).
SingleSeedResolvedEverywhere ==
    sdfStage \in {"finalized", "signed"} =>
        \A c \in Pixels(seedTexture) :
            seedTexture.on = {c} =>
                \A p \in Pixels(seedTexture) :
                    /\ jfa[p] = <<PixelPos(c)[1], PixelPos(c)[2], 1>>
                    /\ unsignedSDF[p].resolved
                    /\ unsignedSDF[p].distSq =
                           4 * ((p[1] - c[1]) * (p[1] - c[1])
                                + (p[2] - c[2]) * (p[2] - c[2]))
                    /\ unsignedSDF[p].diff =
                           <<2 * (p[1] - c[1]), 2 * (p[2] - c[2])>>

\* the scenario of C17: the 2 x 2 texture with its top-left pixel on, finalized;
\* the bottom-right texel has distance sqrt(8)/2 = sqrt(2) pixels and
\* gradient (2, 2)/sqrt(8) = (1/sqrt(2), 1/sqrt(2)).
TwoByTwoFinalized ==
    /\ sdfStage = "finalized"
    /\ seedTexture = [width |-> 2, height |-> 2, on |-> {<<0, 0>>}]
    /\ unsignedSDF[<<1, 1>>] =
           [diff |-> <<2, 2>>, distSq |-> 8, resolved |-> TRUE, sign |-> 1]

\* the signed distance a texel stands for is below zero
Negative(texel) == texel.sign = -1 /\ (texel.resolved => texel.distSq > 0)

Adjacent(p, q) ==
    (p[1] - q[1]) * (p[1] - q[1]) + (p[2] - q[2]) * (p[2] - q[2]) = 1

\* C18: for a seed texture that is a filled disk, with that disk as the
\* fill mask, the sign pass gives every pixel of the mask a negative signed
\* distance and every other pixel a non-negative one, and next to a change
\* of sign the distance is at most one pixel.
SignFollowsFillMask ==
    (/\ sdfStage = "signed" /\ seedTexture.on = fillMaskTexture
     /\ Cardinality(fillMaskTexture) > 1
     /\ fillMaskTexture # Pixels(seedTexture)) =>
        /\ \A p \in Pixels(seedTexture) :
               /\ p \in fillMaskTexture => Negative(signedSDF[p])
               /\ p \notin fillMaskTexture => ~Negative(signedSDF[p])
        /\ \A p, q \in Pixels(seedTexture) :
               Adjacent(p, q) /\ Negative(signedSDF[p]) /\ ~Negative(signedSDF[q])
                   => signedSDF[p].distSq <= 4 /\ signedSDF[q].distSq <= 4

\* C19: a particle whose initialization end time was above the phase in
\* every simulation pass so far is inert: whatever dt and the other
\* uniforms were, its position is its spawn position and its velocity zero.
InertUntilInitEnd ==
    \A p \in Particles :
        p \notin activated => position[p] = spawn[p] /\ velocity[p] = <<0, 0>>

\* C19, reached: a particle still inert where it was spawned next to one
\* that passes with dt > 0 have set moving.
InertBesideMoving ==
    \E p, q \in Particles :
        /\ p \notin activated /\ q \in activated
        /\ initEnd[p] > initEnd[q]
        /\ position[q] # spawn[q] /\ velocity[q] # <<0, 0>>
        /\ position[p] = spawn[p]

\* the format the capability probe chooses
ProbedFormat == IF extension THEN "rgba32float" ELSE "rgba16float"

\* C20: every compute texture created (particle simulation, mouse layer,
\* propagation, finalization, sign pass) has the format the capability
\* probe chooses, rgba32float when the context can render to it and
\* rgba16float otherwise, and the extension is asked for at most once.
OneProbedFormatEverywhere ==
    /\ \A kind \in ComputeTextureNames :
           computeTextures[kind] \in {"none", ProbedFormat}
    /\ getExtensionCalls <= 1

\* the passes of jfaComputeVar among the rendered ones
JfaPasses == SelectSeq(rendered, LAMBDA p : p.v = jfaComputeVar)

\* generateSDFTex has left its loop
LoopLeft ==
    generatePc \in {"finalization", "computeOnce", "release", "return"}
        \/ (generatePc = "for" /\ jfaLoop = numPasses(seedTexture))

\* C21: generateSDFTex runs on one self-dependent variable one seed pass
\* (uFirst = 1) and then numPasses = ceil(log2(max(width, height)))
\* propagation passes (uFirst = 0), pass i with step 2^(numPasses-1-i): the
\* steps halve from 2^(numPasses-1) down to 1, each pass reads what the pass
\* before it rendered, and a 1 x 1 texture gets no propagation pass.
SeedPassThenHalvingSteps ==
    LET n == numPasses(seedTexture)
        q == JfaPasses
    IN  /\ \A k \in 1..Len(q) :
               /\ q[k].samplers = <<jfaComputeVar>>
               /\ q[k].uFirst = (IF k = 1 THEN 1 ELSE 0)
               /\ k > 1 => /\ q[k].uStepSize = Pow2(n - 1 - (k - 2))
                           /\ q[k].reads = <<q[k - 1].target>>
                           /\ q[k].target # q[k - 1].target
               /\ k > 2 => 2 * q[k].uStepSize = q[k - 1].uStepSize
        /\ Len(q) <= 1 + n
        /\ LoopLeft =>
               /\ Len(q) = 1 + n
               /\ n > 0 => q[2].uStepSize = Pow2(n - 1) /\ q[1 + n].uStepSize = 1
               /\ (seedTexture.width = 1 /\ seedTexture.height = 1) => Len(q) = 1
               /\ Pow2(n) >= seedTexture.width /\ Pow2(n) >= seedTexture.height
               /\ n > 0 => \/ Pow2(n - 1) < seedTexture.width
                           \/ Pow2(n - 1) < seedTexture.height

\* C21, reached: a 9 x 2 texture, whose four propagation passes have run
\* with the steps 8, 4, 2, 1, and a 1 x 1 texture is covered by the formula.
NineWideGenerated ==
    /\ generatePc = "return"
    /\ seedTexture.width = 9 /\ seedTexture.height = 2
    /\ Len(JfaPasses) = 5
    /\ [k \in 1..4 |-> JfaPasses[k + 1].uStepSize] = <<8, 4, 2, 1>>

\* a propagation pass is the next pass on the texture jfa
BeforePropagationPass ==
    sdfStage = "propagate" /\ jfaLoop < numPasses(seedTexture)

\* C22: a propagation pass gives every pixel p what the reference rule
\* gives: of the nine samples at offsets {-step, 0, step}^2 from p that lie
\* inside the texture and have the flag set, the seed nearest to p, the
\* first in scan order among equally near ones, with the flag set, or a
\* flag-cleared zero when there is none; samples outside never contribute.
PropagationPassFollowsReference ==
    BeforePropagationPass =>
        \A p \in Pixels(seedTexture) :
            jfaTexel(seedTexture, jfa, stepSize(seedTexture, jfaLoop), p)
                = nearestFlaggedSample(seedTexture, jfa,
                                       stepSize(seedTexture, jfaLoop), p)

\* C22, reached: before the pass with step 1 on a 3 x 3 texture, the corner
\* pixel, five of whose samples fall outside the texture, has two seeds
\* equally near among its samples and takes the first in scan order; with
\* step 2 the same pixel had no flagged sample and was left cleared.
TieAtTheCorner ==
    /\ BeforePropagationPass
    /\ stepSize(seedTexture, jfaLoop) = 1
    /\ seedTexture.width = 3 /\ seedTexture.height = 3
    /\ jfa[<<1, 0>>] = <<3, 1, 1>> /\ jfa[<<0, 1>>] = <<1, 3, 1>>
    /\ jfa[<<0, 0>>] = <<0, 0, 0>> /\ jfa[<<1, 1>>][3] = 0
    /\ jfaTexel(seedTexture, jfa, 1, <<0, 0>>) = <<3, 1, 1>>

\* what finalization writes where no seed was resolved
Sentinel == [diff |-> <<0, 0>>, distSq |-> MAX_DIST, resolved |-> FALSE, sign |-> 1]

\* C23: a pixel with no seed resolved after the last propagation pass gets
\* the sentinel maximum distance and a zero gradient from finalization; for
\* a seed texture with no pixel on, every pixel stays flag-cleared through
\* the seed pass and every propagation pass and the whole output is the
\* sentinel distance with zero gradient.
UnresolvedPixelsGetSentinel ==
    /\ sdfStage \in {"finalized", "signed"} =>
           \A p \in Pixels(seedTexture) :
               jfa[p][3] = 0 => unsignedSDF[p] = Sentinel
    /\ seedTexture.on = {} =>
           /\ sdfStage \in {"propagate", "finalized", "signed"} =>
                  \A p \in Pixels(seedTexture) : jfa[p] = <<0, 0, 0>>
           /\ sdfStage \in {"finalized", "signed"} =>
                  \A p \in Pixels(seedTexture) : unsignedSDF[p] = Sentinel

\* C23, reached: the 3 x 2 texture with no pixel on, finalized after its
\* seed pass and two propagation passes.
EmptySeedFinalized ==
    /\ sdfStage = "finalized"
    /\ seedTexture = [width |-> 3, height |-> 2, on |-> {}]
    /\ jfaLoop = 2
    /\ unsignedSDF[<<2, 1>>] = Sentinel

\* C24: the dependents bookkeeping mirrors the dependency lists in every
\* reachable state: after any sequence of setDependencies and destroy
\* calls, X is in Y's dependents set exactly when Y is in X's dependency
\* list.
DependentsMirrorDependencies ==
    \A X, Y \in Vars : X \in dependents[Y] <=> Y \in Range(dependencies[X])

\* C25: for any graph wired before the first destroy(), once destroy() has
\* been called on every variable, in any order, every variable has its
\* textures-destroyed flag set.
DestroyingAllReleasesAll ==
    (\A v \in Vars : destroyed[v]) => \A v \in Vars : texturesDestroyed[v]

\* C26: in every state reachable by setDependencies and destroy calls, a
\* destroyed variable whose dependents set is empty has its
\* textures-destroyed flag set.
DestroyedUnreferencedIsReleased ==
    \A v \in Vars :
        destroyed[v] /\ dependents[v] = {} => texturesDestroyed[v]

\* the textures created and not released
Alive == UNION {Backing(v) : v \in Vars} \ released

SeedOf(texel) == <<texel[1], texel[2]>>

\* C28: after the seed pass and after every propagation pass, every pixel
\* whose flag is set carries the coordinate of a pixel that is on in the
\* source texture; a pixel that has resolved a seed stays resolved and the
\* distance to its recorded seed does not grow from one pass to the next;
\* so every pixel that is on keeps itself as its seed, at distance zero.
SeedsAreSourcePixels ==
    sdfStage \in {"propagate", "finalized", "signed"} =>
        /\ \A p \in Pixels(seedTexture) :
               jfa[p][3] = 1 =>
                   \E s \in seedTexture.on : SeedOf(jfa[p]) = PixelPos(s)
        /\ \A p \in seedTexture.on :
               jfa[p][3] = 1 /\ SquaredDistance(PixelPos(p), SeedOf(jfa[p])) = 0
        /\ BeforePropagationPass =>
               \A p \in Pixels(seedTexture) :
                   jfa[p][3] = 1 =>
                       LET next == jfaTexel(seedTexture, jfa,
                                            stepSize(seedTexture, jfaLoop), p)
                       IN  /\ next[3] = 1
                           /\ SquaredDistance(PixelPos(p), SeedOf(next))
                                  <= SquaredDistance(PixelPos(p), SeedOf(jfa[p]))

LastCall == Len(callLog)

\* the last call has been served by a run of func
LastCallServed == \E r \in DOMAIN funcRuns : funcRuns[r].call = LastCall

\* C30: for the function debounce returns, at most one timer is pending;
\* every call cancels the pending timer and starts one, so that func runs
\* only delay or more after the last call, with the arguments of that call,
\* at most once for it and never for a call that another call followed; as
\* long as the last call has not been served, its timer is the one pending.
FuncRunsOncePerQuietPeriod ==
    /\ Cardinality(DOMAIN timers) <= 1
    /\ \A r \in DOMAIN funcRuns :
           /\ funcRuns[r].call = funcRuns[r].calls
           /\ funcRuns[r].args = callLog[funcRuns[r].calls].args
           /\ funcRuns[r].time >= callLog[funcRuns[r].calls].time + delay
           /\ \A q \in DOMAIN funcRuns :
                  q # r => funcRuns[q].call # funcRuns[r].call
    /\ LastCall > 0 /\ ~LastCallServed =>
           /\ DOMAIN timers = {timeoutId}
           /\ timers[timeoutId].call = LastCall
           /\ timers[timeoutId].args = callLog[LastCall].args
           /\ timers[timeoutId].due = callLog[LastCall].time + delay
    /\ LastCall = 0 \/ LastCallServed => DOMAIN timers = {}

\* C30, reached: two calls with different arguments less than delay apart,
\* then func has run once, with the arguments of the second call, delay
\* after it, and no timer is left.
SupersededCallNeverRan ==
    /\ delay = 2
    /\ LastCall = 2
    /\ callLog[1] = [time |-> 0, args |-> <<1>>]
    /\ callLog[2] = [time |-> 1, args |-> <<2>>]
    /\ Len(funcRuns) = 1
    /\ funcRuns[1].args = <<2>>
    /\ funcRuns[1].time = 3
    /\ DOMAIN timers = {}
    /\ now = MaxTime

====
